---- MODULE Spec2Model ----
(***************************************************************************)
(* Model of pdf_split.py: main() resolves the list of input files and, for *)
(* each one, runs the split pass (dividir_pdf_con_guia) and then the map   *)
(* pass (create_map_pdf).                                                  *)
(*                                                                         *)
(* Lengths.  The program computes with Python floats.  The model computes  *)
(* with exact fixed-point numbers: a "scaled" length counts units of       *)
(* 1/PtScale point, which represents MM_TO_POINTS = 2.83465 exactly.  The  *)
(* original page's width and height are whole points.  The split pass's    *)
(* clip rectangles are built from whole points only, so they are kept in   *)
(* points; everything that involves the margin is scaled.                  *)
(*                                                                         *)
(* Library.  fitz (PyMuPDF) is outside the repository.  fitz.open and      *)
(* Document.save may raise (unreadable input, unwritable output);          *)
(* show_pdf_page is given rectangles the code never validates, and for an  *)
(* empty source or target rectangle the model lets it either raise or      *)
(* render.  main() has no try/except: an exception ends the run.           *)
(***************************************************************************)
EXTENDS Integers, Sequences, FiniteSets, TLC

\* ------------------------------------------------------------------ bounds
MaxFiles == 2                 \* at most this many input files in one run

Files == 1..MaxFiles
OrigWidths == {300, 600, 1190, 1224}     \* page.rect.width of an input, pt
OrigHeights == {500, 1000, 1684, 2016}   \* page.rect.height of an input, pt
Margins == {0, 10, 300}                  \* --margen, mm
PaperNames == {"A4", "Legal", "Letter"}  \* --size
OutputDirs == {".", "out"}               \* --output-dir ("." when absent)

\* --------------------------------------------------------------- constants
PtScale == 100000             \* scaled units per point
MM_TO_POINTS == 283465        \* 2.83465, scaled
CENTER_FONT_SIZE == 9
EMPTY_BOX == "[]"             \* the out-of-range marker (U+25A1 in the source)
A4_WIDTH == 595
A4_HEIGHT == 842
LEGAL_WIDTH == 612
LEGAL_HEIGHT == 1008

\* ----------------------------------------------------------------- helpers
Min(a, b) == IF a <= b THEN a ELSE b

\* Python's a // b on floats, b # 0: the floor of the quotient.
FloorDiv(a, b) == IF b > 0 THEN a \div b ELSE (0 - a) \div (0 - b)

\* str.upper() on the paper names a run may be given.
Upper(s) ==
  CASE s = "A4" -> "A4"
    [] s = "Legal" -> "LEGAL"
    [] s = "Letter" -> "LETTER"

\* fitz.Rect(x0, y0, x1, y1)
Rect(x0, y0, x1, y1) == [x0 |-> x0, y0 |-> y0, x1 |-> x1, y1 |-> y1]

\* fitz.Rect.is_empty
IsEmptyRect(r) == r.x0 >= r.x1 \/ r.y0 >= r.y1

\* os.path.splitext(os.path.basename(path))[0] of input file f ("f<n>.pdf")
InputName(f) == "f" \o ToString(f)

get_page_size(paper_size) ==
  IF Upper(paper_size) = "LEGAL"
    THEN [width |-> LEGAL_WIDTH, height |-> LEGAL_HEIGHT]
    ELSE [width |-> A4_WIDTH, height |-> A4_HEIGHT]

\* float(margen) * MM_TO_POINTS, scaled
MargenPts(margen) == margen * MM_TO_POINTS

\* the grid count without the extra trailing cell
GridCount_NoExtraCell(orig, cell) == FloorDiv(orig, cell)

\* int(orig // cell) + 1: the number of columns (rows) of a grid
GridCount(orig, cell) == FloorDiv(orig, cell) + 1

\* the clip rectangle without the clamp to the original page
create_clip_rect_Unclamped(col, row, page_width, page_height, orig_width, orig_height) ==
  Rect(col * page_width, row * page_height,
       (col + 1) * page_width, (row + 1) * page_height)

create_clip_rect(col, row, page_width, page_height, orig_width, orig_height) ==
  Rect(col * page_width,
       row * page_height,
       Min((col + 1) * page_width, orig_width),
       Min((row + 1) * page_height, orig_height))

\* page_width, page_height and margen_pts scaled
create_content_rect(page_width, page_height, margen_pts) ==
  Rect(margen_pts, margen_pts, page_width - margen_pts, page_height - margen_pts)

format_position(row, col, max_rows, max_cols) ==
  IF row < 0 \/ col < 0 \/ row >= max_rows \/ col >= max_cols
    THEN EMPTY_BOX
    ELSE "(" \o ToString(row + 1) \o ", " \o ToString(col + 1) \o ")"

\* the page number counted down the columns instead of along the rows
CurrentPage_ColumnMajor(row, col, max_cols) == (col * max_cols) + row + 1

\* current_page of add_guide_texts
CurrentPage(row, col, max_cols) == (row * max_cols) + col + 1

\* the text add_guide_texts inserts
GuideText(row, col, max_rows, max_cols, input_name) ==
  input_name \o " " \o format_position(row, col, max_rows, max_cols)
    \o " [ " \o ToString(CurrentPage(row, col, max_cols)) \o " ]"

\* ------------------------------------------------------------ the library
\* show_pdf_page(rect, src, 0, clip=clip): the code validates neither
\* rectangle; with an empty one the library may reject the call.
ShowPdfPageOutcomes(rect, clip) ==
  IF IsEmptyRect(rect) \/ IsEmptyRect(clip) THEN {"raise", "render"} ELSE {"render"}

\* fitz.open(path) and Document.save(path): may raise
OpenOutcomes == {"ok", "raise"}
SaveOutcomes == {"ok", "raise"}

\* ------------------------------------------------------------------ state
VARIABLES
  args,            \* parse_arguments(): [input, output_dir, size, margen]
  fs_dirs,         \* directories that exist
  fs_before,       \* fs_dirs when the run began (history)
  fs_files,        \* the output paths that have been written
  written,         \* the documents written for the current input (history)
  stdout,          \* what print() wrote
  pc,              \* position in main()
  input_files,     \* main: input_files
  selected_files,  \* main: selected_files
  ci,              \* main: position of the confirmation loop (1-based)
  idx,             \* main: position of the processing loop (1-based)
  page_rect,       \* [width, height] of the current input's first page, pt
  rows, cols,      \* dividir_pdf_con_guia: the split grid
  row, col,        \* dividir_pdf_con_guia: the loop variables
  output,          \* dividir_pdf_con_guia: pages of the document being built
  map_rows, map_cols,   \* create_map_pdf: rows, cols
  map_row, map_col,     \* create_map_pdf: the loop variables (-1: not in the loop)
  counter,         \* create_map_pdf: counter
  new_page         \* create_map_pdf: [lines, labels, texts] drawn on the map page

main_vars == <<args, fs_dirs, fs_before, fs_files, written, stdout, pc,
               input_files, selected_files, ci, idx>>
split_vars == <<rows, cols, row, col, output>>
map_vars == <<map_rows, map_cols, map_row, map_col, counter, new_page>>
vars == <<main_vars, page_rect, split_vars, map_vars>>

NoPage == [lines |-> <<>>, labels |-> <<>>, texts |-> <<>>]
NoRect == [width |-> 0, height |-> 0]
NoneWritten == [split |-> <<>>, map |-> <<>>]

SplitPath(f) == <<f, "output.pdf">>        \* "<name>.output.pdf"
MapPath(f) == <<f, "map.output.pdf">>      \* "<name>.map.output.pdf"

Emit(msg, arg) == stdout' = Append(stdout, [msg |-> msg, arg |-> arg])

\* the first n files, as a list
Prefix(n) == [i \in 1..n |-> i]

Init ==
  /\ \E n \in 0..MaxFiles, d \in OutputDirs, s \in PaperNames, m \in Margins :
       args = [input |-> Prefix(n), output_dir |-> d, size |-> s, margen |-> m]
  /\ fs_dirs \in {{"."}, {".", "out"}}
  /\ fs_before = fs_dirs
  /\ fs_files = {}
  /\ written = NoneWritten
  /\ stdout = <<>>
  /\ pc = "start"
  /\ input_files = <<>>
  /\ selected_files = <<>>
  /\ ci = 1
  /\ idx = 1
  /\ page_rect = NoRect
  /\ rows = 0 /\ cols = 0 /\ row = 0 /\ col = 0
  /\ output = <<>>
  /\ map_rows = 0 /\ map_cols = 0 /\ map_row = -1 /\ map_col = 0
  /\ counter = 1
  /\ new_page = NoPage

\* ------------------------------------------------------------------- main
\* os.makedirs(output_dir, exist_ok=True)
MakeOutputDir ==
  /\ pc = "start"
  /\ fs_dirs' = fs_dirs \cup {args.output_dir}
  /\ pc' = "resolve"
  /\ UNCHANGED <<args, fs_before, fs_files, written, stdout, input_files,
                 selected_files, ci, idx, page_rect, split_vars, map_vars>>

\* input_files = args.input if args.input else get_pdf_files()
ResolveInputs ==
  /\ pc = "resolve"
  /\ \E n \in 0..MaxFiles :
     LET get_pdf_files == Prefix(n)   \* the *.pdf files os.listdir('.') finds
         files == IF args.input # <<>> THEN args.input ELSE get_pdf_files
     IN /\ args.input # <<>> => n = 0   \* the directory is not read
        /\ input_files' = files
        /\ IF files = <<>>
             THEN Emit("no_files_found", 0) /\ pc' = "returned"
             ELSE /\ UNCHANGED stdout
                  /\ pc' = IF args.input # <<>> THEN "loop" ELSE "confirm"
  /\ UNCHANGED <<args, fs_dirs, fs_before, fs_files, written, selected_files,
                 ci, idx, page_rect, split_vars, map_vars>>

\* confirm_process(): True only for 'y' or 'yes'
ConfirmFile ==
  /\ pc = "confirm"
  /\ ci <= Len(input_files)
  /\ \E answer \in BOOLEAN :
       selected_files' = IF answer THEN Append(selected_files, input_files[ci])
                                   ELSE selected_files
  /\ ci' = ci + 1
  /\ UNCHANGED <<args, fs_dirs, fs_before, fs_files, written, stdout, pc,
                 input_files, idx, page_rect, split_vars, map_vars>>

\* input_files = selected_files; return when nothing was selected
FinishSelection ==
  /\ pc = "confirm"
  /\ ci > Len(input_files)
  /\ input_files' = selected_files
  /\ IF selected_files = <<>>
       THEN Emit("none_selected", 0) /\ pc' = "returned"
       ELSE UNCHANGED stdout /\ pc' = "loop"
  /\ UNCHANGED <<args, fs_dirs, fs_before, fs_files, written, selected_files,
                 ci, idx, page_rect, split_vars, map_vars>>

\* for input_path in input_files: print("Procesando: ...")
NextFile ==
  /\ pc = "loop"
  /\ idx <= Len(input_files)
  /\ Emit("processing", input_files[idx])
  /\ written' = NoneWritten
  /\ pc' = "split_open"
  /\ UNCHANGED <<args, fs_dirs, fs_before, fs_files, input_files,
                 selected_files, ci, idx, page_rect, split_vars, map_vars>>

\* the loop is over: print("Procesamiento completado - n archivo(s) ...")
Completed ==
  /\ pc = "loop"
  /\ idx > Len(input_files)
  /\ Emit("completed", Len(input_files))
  /\ pc' = "done"
  /\ UNCHANGED <<args, fs_dirs, fs_before, fs_files, written, input_files,
                 selected_files, ci, idx, page_rect, split_vars, map_vars>>

\* ------------------------------------------------- dividir_pdf_con_guia
CurrentFile == input_files[idx]
PageSize == get_page_size(args.size)
margen_pts == MargenPts(args.margen)

\* fitz.open(input), page.rect, cols, rows, output = fitz.open()
SplitOpen ==
  /\ pc = "split_open"
  /\ \E o \in OpenOutcomes :
       IF o = "raise"
         THEN /\ pc' = "crashed"
              /\ UNCHANGED <<page_rect, split_vars>>
         ELSE \E w \in OrigWidths, h \in OrigHeights :
                /\ page_rect' = [width |-> w, height |-> h]
                /\ cols' = GridCount(w, PageSize.width)
                /\ rows' = GridCount(h, PageSize.height)
                /\ output' = <<>>
                /\ row' = 0
                /\ col' = 0
                /\ pc' = "split_tiles"
  /\ UNCHANGED <<args, fs_dirs, fs_before, fs_files, written, stdout,
                 input_files, selected_files, ci, idx, map_vars>>

\* output.new_page(width, height): a page with nothing on it yet
BlankPage(row_, col_) ==
  [width |-> PageSize.width, height |-> PageSize.height,
   row |-> row_, col |-> col_, shown |-> FALSE]

\* the page process_page leaves behind when nothing raises
RenderedPage(row_, col_, max_rows, max_cols, input_name) ==
  LET clip == create_clip_rect(col_, row_, PageSize.width, PageSize.height,
                               page_rect.width, page_rect.height)
      content_rect == create_content_rect(PageSize.width * PtScale,
                                          PageSize.height * PtScale, margen_pts)
      text == GuideText(row_, col_, max_rows, max_cols, input_name)
      text_width == Len(text) * CENTER_FONT_SIZE * PtScale
  IN [width |-> PageSize.width, height |-> PageSize.height,
      row |-> row_, col |-> col_, shown |-> TRUE,
      clip |-> clip,
      content_rect |-> content_rect,
      margin_rect |-> Rect(margen_pts, margen_pts,
                           PageSize.width * PtScale - margen_pts,
                           PageSize.height * PtScale - margen_pts),
      position |-> format_position(row_, col_, max_rows, max_cols),
      current_page |-> CurrentPage(row_, col_, max_cols),
      text |-> text,
      text_at |-> <<PageSize.width * PtScale - margen_pts - text_width,
                    PageSize.height * PtScale - margen_pts
                      - CENTER_FONT_SIZE * PtScale>>]

\* one iteration of "for row ... for col ...: process_page(...)"
ProcessPage ==
  /\ pc = "split_tiles"
  /\ row < rows
  /\ LET page == RenderedPage(row, col, rows, cols, InputName(CurrentFile))
     IN \E o \in ShowPdfPageOutcomes(page.content_rect, page.clip) :
          IF o = "raise"
            THEN /\ output' = Append(output, BlankPage(row, col))
                 /\ pc' = "crashed"
                 /\ UNCHANGED <<row, col>>
            ELSE /\ output' = Append(output, page)
                 /\ IF col + 1 < cols
                      THEN col' = col + 1 /\ row' = row
                      ELSE col' = 0 /\ row' = row + 1
                 /\ pc' = pc
  /\ UNCHANGED <<args, fs_dirs, fs_before, fs_files, written, stdout,
                 input_files, selected_files, ci, idx, page_rect, rows, cols,
                 map_vars>>

\* output.save(output_pdf_path); print; return
SplitSave ==
  /\ pc = "split_tiles"
  /\ row >= rows
  /\ \E o \in SaveOutcomes :
       IF o = "raise"
         THEN /\ pc' = "crashed"
              /\ UNCHANGED <<fs_files, written, stdout, split_vars>>
         ELSE /\ fs_files' = fs_files \cup {SplitPath(CurrentFile)}
              /\ written' = [written EXCEPT !.split = output]
              /\ Emit("split_saved", CurrentFile)
              /\ pc' = "map_open"
              /\ rows' = 0 /\ cols' = 0 /\ row' = 0 /\ col' = 0
              /\ output' = <<>>
  /\ UNCHANGED <<args, fs_dirs, fs_before, input_files,
                 selected_files, ci, idx, page_rect, map_vars>>

\* ---------------------------------------------------------- create_map_pdf
grid_width == PageSize.width * PtScale - (2 * margen_pts)
grid_height == PageSize.height * PtScale - (2 * margen_pts)
orig_width == page_rect.width * PtScale
orig_height == page_rect.height * PtScale

Line(x0, y0, x1, y1) == [from |-> <<x0, y0>>, to |-> <<x1, y1>>]

\* fitz.open(input), the copy of the original, grid_width, grid_height,
\* cols, rows (orig // 0.0 raises ZeroDivisionError), counter = 1
MapOpen ==
  /\ pc = "map_open"
  /\ \E o \in OpenOutcomes :
       IF o = "raise" \/ grid_width = 0 \/ grid_height = 0
         THEN /\ pc' = "crashed"
              /\ UNCHANGED map_vars
         ELSE /\ map_cols' = GridCount(orig_width, grid_width)
              /\ map_rows' = GridCount(orig_height, grid_height)
              /\ counter' = 1
              /\ map_col' = 0
              /\ map_row' = -1
              /\ new_page' = NoPage
              /\ pc' = "map_draw"
  /\ UNCHANGED <<args, fs_dirs, fs_before, fs_files, written, stdout,
                 input_files, selected_files, ci, idx, page_rect, split_vars>>

\* for col in range(cols): the vertical line of the column
MapVLine ==
  /\ pc = "map_draw"
  /\ map_row = -1
  /\ map_col < map_cols
  /\ LET x == map_col * grid_width
     IN new_page' = [new_page EXCEPT
                       !.lines = Append(@, Line(x, 0, x, orig_height))]
  /\ IF map_rows > 0
       THEN map_row' = 0 /\ map_col' = map_col
       ELSE map_row' = -1 /\ map_col' = map_col + 1
  /\ UNCHANGED <<main_vars, page_rect, split_vars, map_rows, map_cols, counter>>

\* the number insert_text draws at one intersection
MapLabel(col_, row_, n) ==
  LET x == col_ * grid_width
      y == row_ * grid_height
      text == ToString(n)
      text_width == (Len(text) * CENTER_FONT_SIZE * PtScale) \div 2
  IN [col |-> col_, row |-> row_, text |-> text, number |-> n,
      at |-> <<x - (text_width \div 2), y - ((CENTER_FONT_SIZE * PtScale) \div 2)>>]

\* the numbering written from the position, along the rows
MapNumber_RowMajor ==
  /\ pc = "map_draw"
  /\ map_row >= 0
  /\ new_page' = [new_page EXCEPT
                    !.labels = Append(@, MapLabel(map_col, map_row,
                                                  map_row * map_cols + map_col + 1))]
  /\ counter' = counter + 1
  /\ IF map_row + 1 < map_rows
       THEN map_row' = map_row + 1 /\ map_col' = map_col
       ELSE map_row' = -1 /\ map_col' = map_col + 1
  /\ UNCHANGED <<main_vars, page_rect, split_vars, map_rows, map_cols>>

\* for row in range(rows): text = str(counter); counter += 1; insert_text
MapNumber ==
  /\ pc = "map_draw"
  /\ map_row >= 0
  /\ new_page' = [new_page EXCEPT
                    !.labels = Append(@, MapLabel(map_col, map_row, counter))]
  /\ counter' = counter + 1
  /\ IF map_row + 1 < map_rows
       THEN map_row' = map_row + 1 /\ map_col' = map_col
       ELSE map_row' = -1 /\ map_col' = map_col + 1
  /\ UNCHANGED <<main_vars, page_rect, split_vars, map_rows, map_cols>>

\* the text "<name> [<cols>x<rows> grid]"
MapSummary(input_name) ==
  LET text == input_name \o " [" \o ToString(map_cols) \o "x"
                \o ToString(map_rows) \o " grid]"
      text_width == Len(text) * CENTER_FONT_SIZE * PtScale
  IN [text |-> text,
      at |-> <<orig_width - margen_pts - text_width,
               orig_height - margen_pts - CENTER_FONT_SIZE * PtScale>>]

\* the horizontal lines of "for row in range(rows)"
HLines ==
  [i \in 1..(IF map_rows > 0 THEN map_rows ELSE 0) |->
     Line(0, (i - 1) * grid_height, orig_width, (i - 1) * grid_height)]

\* the map page when the drawing is over
FinishedMapPage ==
  [lines |-> new_page.lines
               \o <<Line(map_cols * grid_width, 0, map_cols * grid_width, orig_height)>>
               \o HLines
               \o <<Line(0, map_rows * grid_height, orig_width, map_rows * grid_height)>>,
   labels |-> new_page.labels,
   texts |-> <<MapSummary(InputName(CurrentFile))>>]

\* last vertical line, horizontal lines, summary, output.save(); print; return
MapSave ==
  /\ pc = "map_draw"
  /\ map_row = -1
  /\ map_col >= map_cols
  /\ \E o \in SaveOutcomes :
       IF o = "raise"
         THEN /\ pc' = "crashed"
              /\ new_page' = FinishedMapPage
              /\ UNCHANGED <<fs_files, written, stdout, idx, page_rect, map_rows,
                             map_cols, map_row, map_col, counter>>
         ELSE /\ fs_files' = fs_files \cup {MapPath(CurrentFile)}
              /\ written' = [written EXCEPT !.map =
                                <<[width |-> page_rect.width,
                                   height |-> page_rect.height,
                                   rows |-> map_rows, cols |-> map_cols,
                                   page |-> FinishedMapPage]>>]
              /\ Emit("map_saved", CurrentFile)
              /\ idx' = idx + 1
              /\ pc' = "loop"
              /\ page_rect' = NoRect
              /\ map_rows' = 0 /\ map_cols' = 0 /\ map_row' = -1 /\ map_col' = 0
              /\ counter' = 1
              /\ new_page' = NoPage
  /\ UNCHANGED <<args, fs_dirs, fs_before, input_files,
                 selected_files, ci, split_vars>>

\* ------------------------------------------------------------------- spec
Next ==
  \/ MakeOutputDir
  \/ ResolveInputs
  \/ ConfirmFile
  \/ FinishSelection
  \/ NextFile
  \/ Completed
  \/ SplitOpen
  \/ ProcessPage
  \/ SplitSave
  \/ MapOpen
  \/ MapVLine
  \/ MapNumber
  \/ MapSave

Spec == Init /\ [][Next]_vars

\* ----------------------------------------------------------------- claims
Terminated == pc \in {"done", "crashed", "returned"}
SplitFinished == pc = "split_tiles" /\ row >= rows
MapFinished == pc = "map_draw" /\ map_row = -1 /\ map_col >= map_cols

\* the grid property of C1 for one dimension: n cells of size cell over orig
GridCovers(n, orig, cell) ==
  /\ n = (orig \div cell) + 1
  /\ n >= 1
  /\ n * cell >= orig
  /\ (n - 1) * cell <= orig
  /\ ((n - 1) * cell = orig) <=> (orig % cell = 0)

\* C1: for positive original and cell sizes, the grid of the split pass (cell =
\* the sheet) and of the map pass (cell = the sheet minus twice the margin) has
\* floor(orig / cell) + 1 columns and rows: at least one, enough to cover the
\* original, and the last one starts inside the original, on its edge only
\* when the original is an exact multiple of the cell.
C1_GridCoverage ==
  /\ pc = "split_tiles" =>
       /\ GridCovers(cols, page_rect.width, PageSize.width)
       /\ GridCovers(rows, page_rect.height, PageSize.height)
  /\ (pc = "map_draw" /\ grid_width > 0 /\ grid_height > 0) =>
       /\ GridCovers(map_cols, orig_width, grid_width)
       /\ GridCovers(map_rows, orig_height, grid_height)

\* the map pass has computed a grid whose last column starts exactly on the
\* original's right edge and whose last row is partial
C1_Witness ==
  /\ pc = "map_draw"
  /\ grid_width > 0 /\ grid_height > 0
  /\ map_cols = 3 /\ (map_cols - 1) * grid_width = orig_width
  /\ map_rows = 2 /\ (map_rows - 1) * grid_height < orig_height

\* C5: the k-th page the split pass appends is the tile (row, col) with
\* k = row*cols + col + 1, labelled "<name> (row+1, col+1) [ k ]", never with
\* the out-of-range marker; a finished pass has appended rows*cols pages.
C5_RowMajorLabels ==
  pc = "split_tiles" =>
    /\ Len(output) <= rows * cols
    /\ SplitFinished => Len(output) = rows * cols
    /\ \A k \in 1..Len(output) :
         LET r == (k - 1) \div cols
             c == (k - 1) % cols
         IN /\ output[k].row = r
            /\ output[k].col = c
            /\ output[k].current_page = k
            /\ output[k].position # EMPTY_BOX
            /\ output[k].text = InputName(CurrentFile) \o " (" \o ToString(r + 1)
                                  \o ", " \o ToString(c + 1) \o ") [ "
                                  \o ToString(k) \o " ]"
    /\ Len(output) >= 1 => output[1].text = InputName(CurrentFile) \o " (1, 1) [ 1 ]"

\* a finished split pass over a grid of 2 rows and 3 columns
C5_Witness ==
  /\ SplitFinished
  /\ rows = 2 /\ cols = 3
  /\ Len(output) = 6
  /\ output[6].text = InputName(CurrentFile) \o " (2, 3) [ 6 ]"

Max(a, b) == IF a >= b THEN a ELSE b
RectArea(r) == (r.x1 - r.x0) * (r.y1 - r.y0)
OverlapArea(a, b) ==
  Max(0, Min(a.x1, b.x1) - Max(a.x0, b.x0)) * Max(0, Min(a.y1, b.y1) - Max(a.y0, b.y0))

RECURSIVE ClipAreaSum(_, _)
ClipAreaSum(pages, n) ==
  IF n = 0 THEN 0 ELSE RectArea(pages[n].clip) + ClipAreaSum(pages, n - 1)

\* C6: the clip rectangles of the tiles lie inside the original page, are not
\* inverted, do not overlap in a region of positive area, and when the pass
\* is finished their areas add up to the area of the original page.
C6_ClipsTileThePage ==
  pc = "split_tiles" =>
    /\ \A k \in 1..Len(output) :
         LET r == output[k].clip
         IN /\ 0 <= r.x0 /\ r.x0 <= r.x1 /\ r.x1 <= page_rect.width
            /\ 0 <= r.y0 /\ r.y0 <= r.y1 /\ r.y1 <= page_rect.height
    /\ \A j, k \in 1..Len(output) :
         j < k => OverlapArea(output[j].clip, output[k].clip) = 0
    /\ SplitFinished =>
         ClipAreaSum(output, Len(output)) = page_rect.width * page_rect.height

\* a finished split pass whose last column is degenerate (the width is an
\* exact multiple of the sheet) and whose last row is partial
C6_Witness ==
  /\ SplitFinished
  /\ rows = 3 /\ cols = 3
  /\ page_rect.width = 2 * PageSize.width
  /\ page_rect.height > 2 * PageSize.height
  /\ Len(output) = 9

\* C8: the map numbers its intersections down the columns: the intersection
\* of vertical line col and horizontal line row carries col*rows + row + 1,
\* the numbers of a finished map are 1..rows*cols, each once; in a 2x2 grid
\* position (row 1, col 0) carries 2 on the map and 3 on the tile.
C8_MapColumnMajor ==
  pc = "map_draw" =>
    LET labels == new_page.labels
    IN /\ \A i \in 1..Len(labels) :
            /\ labels[i].number = i
            /\ labels[i].text = ToString(i)
            /\ labels[i].row \in 0..(map_rows - 1)
            /\ labels[i].col \in 0..(map_cols - 1)
            /\ labels[i].number = labels[i].col * map_rows + labels[i].row + 1
       /\ (MapFinished /\ map_rows > 0 /\ map_cols > 0) =>
            Len(labels) = map_rows * map_cols
       /\ (MapFinished /\ map_rows = 2 /\ map_cols = 2 /\ Len(written.split) = 4
             /\ written.split[4].row = 1 /\ written.split[4].col = 1) =>
            /\ \E i \in 1..Len(labels) :
                 labels[i].row = 1 /\ labels[i].col = 0 /\ labels[i].number = 2
            /\ \E k \in 1..4 :
                 /\ written.split[k].row = 1 /\ written.split[k].col = 0
                 /\ written.split[k].current_page = 3

\* a finished map of 2x2 intersections over a split document of 2x2 tiles
C8_Witness ==
  /\ MapFinished
  /\ map_rows = 2 /\ map_cols = 2
  /\ Len(new_page.labels) = 4
  /\ Len(written.split) = 4
  /\ written.split[4].row = 1 /\ written.split[4].col = 1

\* the content rectangle has no width or no height
InvalidMargin ==
  2 * margen_pts >= Min(PageSize.width, PageSize.height) * PtScale

\* C2: with a margin of at least half the sheet's smaller side the file is
\* given up before a page is added to an output document and before an
\* output file is written.
C2_InvalidMarginAbortsEarly ==
  InvalidMargin => (output = <<>> /\ pc # "map_draw" /\ fs_files = {})

\* C3: when the run is over, each input file has both its split document and
\* its map document on disk, or neither.
C3_BothOutputsOrNeither ==
  Terminated =>
    \A f \in Files : (SplitPath(f) \in fs_files) <=> (MapPath(f) \in fs_files)

\* C4: when the run is over, every selected file has been taken up by the
\* processing loop, whatever happened to the files before it.
C4_RemainingFilesProcessed ==
  Terminated =>
    \A i \in 1..Len(input_files) :
      \E j \in 1..Len(stdout) :
        stdout[j] = [msg |-> "processing", arg |-> input_files[i]]

\* C7: with a valid margin, the map written for an input has the grid of the
\* split document written for it, and at every tile's (row, col) the map
\* carries the tile's sequence number.
C7_MapAgreesWithSplit ==
  (written.split # <<>> /\ written.map # <<>> /\ ~InvalidMargin) =>
    LET tiles == written.split
        map == written.map[1]
        last == tiles[Len(tiles)]
    IN /\ map.rows = last.row + 1
       /\ map.cols = last.col + 1
       /\ \A k \in 1..Len(tiles) :
            \E i \in 1..Len(map.page.labels) :
              /\ map.page.labels[i].row = tiles[k].row
              /\ map.page.labels[i].col = tiles[k].col
              /\ map.page.labels[i].number = tiles[k].current_page

\* C9: a run that selects no file ends with the file system as it was: no
\* directory created, no output written, no pass entered.
C9_ZeroFilesNoOp ==
  pc = "returned" =>
    /\ fs_dirs = fs_before
    /\ fs_files = {}
    /\ output = <<>> /\ written = NoneWritten

\* C10: with a valid margin, an original that is an exact multiple k of the
\* sheet in width (height) gets k+1 columns (rows), the tiles of the trailing
\* column (row) have a clip rectangle of zero width (height) on the original's
\* edge, and each of them gets its page without the pass failing; twice the
\* sheet in both dimensions gives 3x3 tiles and 9 pages.
C10_DegenerateTilesRendered ==
  (pc \in {"split_tiles", "crashed"} /\ rows > 0 /\ ~InvalidMargin) =>
    /\ page_rect.width % PageSize.width = 0 =>
         cols = (page_rect.width \div PageSize.width) + 1
    /\ page_rect.height % PageSize.height = 0 =>
         rows = (page_rect.height \div PageSize.height) + 1
    /\ \A k \in 1..Len(output) :
         /\ output[k].shown
         /\ (page_rect.width % PageSize.width = 0 /\ output[k].col = cols - 1) =>
              (output[k].clip.x0 = page_rect.width /\ output[k].clip.x1 = page_rect.width)
         /\ (page_rect.height % PageSize.height = 0 /\ output[k].row = rows - 1) =>
              (output[k].clip.y0 = page_rect.height /\ output[k].clip.y1 = page_rect.height)
    /\ (SplitFinished /\ page_rect.width = 2 * PageSize.width
          /\ page_rect.height = 2 * PageSize.height) =>
         (rows = 3 /\ cols = 3 /\ Len(output) = 9)
====
